---- MODULE Spec2Model ----
(***************************************************************************)
(* Model of the Canvas API client (src/src/canvas-api.ts): one client      *)
(* object holding an authenticated axios instance, the operations get,     *)
(* getPaginated, post and uploadFile, the link-header parser and the       *)
(* error classifier.  An invocation is a chain of HTTP round-trips; every  *)
(* await is split in two steps: the transport settles the request, then    *)
(* the continuation of the async function runs.                            *)
(***************************************************************************)
EXTENDS Integers, Sequences, FiniteSets, TLC

\* ------------------------------------------------------------------ bounds
MaxPages   == 3      \* requests one getPaginated invocation may issue
MaxEntries == 3      \* entries in one link header handed to the parser
MaxHops    == 1      \* redirects the transport follows for one request

\* --------------------------------------------------------------- constants
DefaultPerPage == 100

\* ------------------------------------------------------------------ values
Null == "null"          \* JavaScript null / undefined of a reference

Tokens   == {"tok-A"}
BaseURLs == {"https://canvas.test/api/v1"}

Paths      == {"/courses"}
UploadUrls == {"https://upload.test/u1"}
PageUrls   == {"https://x/y?page=2", "https://x/y?page=3"}
Rels       == {"next", "prev", "last"}

\* caller-supplied query parameters (an absent argument is the empty object)
NoParams == [k \in {} |-> 0]
ParamSets ==
    { NoParams,
      [k \in {"order_by"} |-> "due_at"],
      [k \in {"per_page"} |-> 50],
      [k \in {"per_page", "order_by"} |-> IF k = "per_page" THEN 50 ELSE "due_at"] }

\* JSON bodies are tagged: arr (array of items), obj (a non-iterable object),
\* str, nul, und (no body)
Arr(s)  == [t |-> "arr", v |-> s,    s |-> ""]
Obj     == [t |-> "obj", v |-> <<>>, s |-> ""]
Str(x)  == [t |-> "str", v |-> <<>>, s |-> x]
Nul     == [t |-> "nul", v |-> <<>>, s |-> ""]
Und     == [t |-> "und", v |-> <<>>, s |-> ""]

RECURSIVE SeqsUpTo(_, _)
SeqsUpTo(S, n) ==
    IF n = 0 THEN { <<>> }
    ELSE LET shorter == SeqsUpTo(S, n - 1)
         IN  shorter \cup { Append(s, x) : s \in { q \in shorter : Len(q) = n - 1 }, x \in S }

\* the bodies of a 200 response: an empty page, a page of one item, a page of
\* two items, or an object instead of a page
PageBodies  == { Arr(<< >>), Arr(<< 1 >>), Arr(<< 2, 1 >>), Obj }
ErrorBodies == { Str("gone"), Nul }

OkStatuses       == {200}
RedirectStatuses == {302}
ErrorStatuses    == {401, 403, 404, 429, 500}

\* ------------------------------------------------------------ link headers
\* A header value is a sequence of lexical tokens; an entry <url>; rel="name"
\* is the six tokens  <  url  >  ;  space  rel="name"  and entries are joined
\* by a comma.
RelToken(rel) == "rel=\"" \o rel \o "\""

FormatEntry(e) == << "<", e.url, ">", ";", " ", RelToken(e.rel) >>

RECURSIVE FormatLink(_)
FormatLink(es) ==
    IF es = <<>> THEN <<>>
    ELSE IF Len(es) = 1 THEN FormatEntry(es[1])
    ELSE FormatEntry(es[1]) \o << "," >> \o FormatLink(Tail(es))

Entries    == [url : PageUrls, rel : Rels]
EntryLists == SeqsUpTo(Entries, MaxEntries)

AbsentLink     == [def |-> FALSE, toks |-> <<>>]
PresentLink(t) == [def |-> TRUE,  toks |-> t]
LinkHeaders    == { AbsentLink } \cup { PresentLink(FormatLink(es)) : es \in EntryLists }

\* the link headers the upstream attaches to a page of a listing
Entry(u, r) == [url |-> u, rel |-> r]
ServedEntryLists ==
    { << Entry(u, "next") >> : u \in PageUrls }
    \cup { << Entry(u, "prev") >> : u \in {"https://x/y?page=2"} }
    \cup { << Entry("https://x/y?page=2", "prev"), Entry("https://x/y?page=3", "next") >> }
ServedLinks == { AbsentLink } \cup { PresentLink(FormatLink(es)) : es \in ServedEntryLists }

RECURSIVE Concat(_)
Concat(toks) == IF toks = <<>> THEN "" ELSE Head(toks) \o Concat(Tail(toks))

\* position of the first token at or after i that satisfies the test, or 0
FirstGt(h, i) ==
    LET c == { k \in i..Len(h) : h[k] = ">" }
    IN  IF c = {} THEN 0 ELSE CHOOSE k \in c : \A m \in c : k <= m
FirstNonSpace(h, i) ==
    LET c == { k \in i..Len(h) : h[k] # " " }
    IN  IF c = {} THEN 0 ELSE CHOOSE k \in c : \A m \in c : k <= m

\* variant: the pattern anchored at the start of the header
MatchesAt_anchored(h, i) ==
    /\ i = 1
    /\ h[i] = "<"
    /\ LET j == FirstGt(h, i + 1)
       IN  /\ j >= i + 2
           /\ j + 1 <= Len(h)
           /\ h[j + 1] = ";"
           /\ LET m == FirstNonSpace(h, j + 2)
              IN  m # 0 /\ h[m] = RelToken("next")

\* does /<([^>]+)>;\s*rel="next"/ match with its "<" at position i
MatchesAt(h, i) ==
    /\ h[i] = "<"
    /\ LET j == FirstGt(h, i + 1)
       IN  /\ j >= i + 2
           /\ j + 1 <= Len(h)
           /\ h[j + 1] = ";"
           /\ LET m == FirstNonSpace(h, j + 2)
              IN  m # 0 /\ h[m] = RelToken("next")

\* private parseNextLink(linkHeader: string | undefined): string | null
parseNextLink(linkHeader) ==
    IF ~linkHeader.def \/ linkHeader.toks = <<>> THEN Null
    ELSE LET h == linkHeader.toks
             starts == { i \in 1..Len(h) : MatchesAt(h, i) }
         IN  IF starts = {} THEN Null
             ELSE LET i == CHOOSE k \in starts : \A m \in starts : k <= m
                  IN  Concat(SubSeq(h, i + 1, FirstGt(h, i + 1) - 1))

\* JavaScript truthiness of a string | null
Truthy(u) == u # Null /\ u # ""

\* ------------------------------------------------------- error classifier
\* JSON.stringify of a body, as it appears inside a template literal
RECURSIVE JoinItems(_)
JoinItems(s) ==
    IF s = <<>> THEN ""
    ELSE IF Len(s) = 1 THEN ToString(s[1])
    ELSE ToString(s[1]) \o "," \o JoinItems(Tail(s))

JSONstringify(d) ==
    CASE d.t = "arr" -> "[" \o JoinItems(d.v) \o "]"
      [] d.t = "obj" -> "{\"errors\":[]}"
      [] d.t = "str" -> "\"" \o d.s \o "\""
      [] d.t = "nul" -> "null"
      [] d.t = "und" -> "undefined"

\* String(value) of a value that is not an Error
String(d) ==
    CASE d.t = "arr" -> JoinItems(d.v)
      [] d.t = "obj" -> "[object Object]"
      [] d.t = "str" -> d.s
      [] d.t = "nul" -> "null"
      [] d.t = "und" -> "undefined"

\* a thrown value
AxiosResponseError(status, data) ==
    [ axios |-> TRUE, isError |-> TRUE, hasResponse |-> TRUE, status |-> status,
      data |-> data, message |-> "Request failed with status code " \o ToString(status) ]
AxiosNetworkError(msg) ==
    [ axios |-> TRUE, isError |-> TRUE, hasResponse |-> FALSE, status |-> 0,
      data |-> Und, message |-> msg ]
PlainError(msg) ==
    [ axios |-> FALSE, isError |-> TRUE, hasResponse |-> FALSE, status |-> 0,
      data |-> Und, message |-> msg ]
NoError ==
    [ axios |-> FALSE, isError |-> FALSE, hasResponse |-> FALSE, status |-> 0,
      data |-> Und, message |-> "" ]

NetworkMessages == {"connect ECONNREFUSED", "getaddrinfo ENOTFOUND"}

\* err.response?.status and err.response?.data
ResponseStatus(err) == [def |-> err.hasResponse, n |-> IF err.hasResponse THEN err.status ELSE 0]
ResponseData(err)   == IF err.hasResponse THEN err.data ELSE Und

StatusText(st) == IF st.def THEN ToString(st.n) ELSE "undefined"

\* the source's em dash is written "--"
MsgUnauthorized == "Canvas API: Unauthorized -- check your API token"
MsgForbidden    == "Canvas API: Forbidden -- you don't have access to this resource"
MsgNotFound     == "Canvas API: Not found -- check the course/assignment ID"
MsgRateLimited  == "Canvas API: Rate limited -- try again in a moment"

UpstreamMessage(st, data) ==
    "Canvas API error " \o StatusText(st) \o ": " \o JSONstringify(data)

\* variant: every value that is not an AxiosError is wrapped in a new Error
NonAxios_wrap(err) ==
    IF err.isError THEN "Error: " \o err.message ELSE String(err.data)
\* return err instanceof Error ? err : new Error(String(err))
NonAxios(err) == IF err.isError THEN err.message ELSE String(err.data)

\* variant: no branch for 429
handleError_no429(err) ==
    IF err.axios
    THEN LET status == ResponseStatus(err)
             data   == ResponseData(err)
         IN  IF status.def /\ status.n = 401 THEN MsgUnauthorized
             ELSE IF status.def /\ status.n = 403 THEN MsgForbidden
             ELSE IF status.def /\ status.n = 404 THEN MsgNotFound
             ELSE UpstreamMessage(status, data)
    ELSE NonAxios(err)

\* private handleError(err: unknown): Error   (the message of the returned Error)
handleError(err) ==
    IF err.axios
    THEN LET status == ResponseStatus(err)
             data   == ResponseData(err)
         IN  IF status.def /\ status.n = 401 THEN MsgUnauthorized
             ELSE IF status.def /\ status.n = 403 THEN MsgForbidden
             ELSE IF status.def /\ status.n = 404 THEN MsgNotFound
             ELSE IF status.def /\ status.n = 429 THEN MsgRateLimited
             ELSE UpstreamMessage(status, data)
    ELSE NonAxios(err)

\* ----------------------------------------------------------- configuration
\* a value of process.env: absent, or a string (possibly empty)
Unset    == [def |-> FALSE, s |-> ""]
SetTo(x) == [def |-> TRUE,  s |-> x]
EnvTokens   == { Unset, SetTo("") } \cup { SetTo(t) : t \in Tokens }
EnvBaseURLs == { Unset, SetTo("") } \cup { SetTo(b) : b \in BaseURLs }

\* !value of a string | undefined
Falsy(v) == ~v.def \/ v.s = ""

\* variant: the constructor refuses only when both values are missing
ConfigMissing_both(token, baseURL) == Falsy(token) /\ Falsy(baseURL)
\* if (!token || !baseURL)
ConfigMissing(token, baseURL) == Falsy(token) \/ Falsy(baseURL)

\* a string | undefined inside a template literal
TemplateText(v) == IF v.def THEN v.s ELSE "undefined"

MsgConfig == "CANVAS_API_TOKEN and CANVAS_BASE_URL environment variables are required"

\* this.client before and after axios.create
NoClient == [baseURL |-> "", token |-> ""]
CreateClient(e) == [baseURL |-> TemplateText(e.baseURL), token |-> TemplateText(e.token)]

\* ---------------------------------------------------------------- requests
\* headers of the instance built by axios.create in the constructor
ClientHeaders(cfg) == [h \in {"Authorization"} |-> "Bearer " \o cfg.token]

\* form.getHeaders() of the multipart form
FormHeaders == [h \in {"content-type"} |-> "multipart/form-data"]

\* a request issued through this.client (axios defaults: redirects followed,
\* a status is accepted when 200 <= status < 300)
ClientRequest(cfg, method, url, params, body) ==
    [ method |-> method, url |-> url, baseURL |-> cfg.baseURL, params |-> params,
      body |-> body, headers |-> ClientHeaders(cfg),
      followRedirects |-> TRUE, validateStatus |-> "2xx" ]

\* variant: uploadFile passing only the form headers (axios defaults otherwise)
UploadOptions_defaults ==
    [ headers |-> FormHeaders, followRedirects |-> TRUE, validateStatus |-> "2xx" ]

\* the options uploadFile passes to axios.post
UploadOptions ==
    [ headers |-> FormHeaders, followRedirects |-> FALSE, validateStatus |-> "lt400" ]

\* variant: the same request sent with the instance's default headers
AxiosRequest_viaClient(method, url, body, opts) ==
    [ method |-> method, url |-> url, baseURL |-> "", params |-> NoParams,
      body |-> body,
      headers |-> [h \in {"Authorization"} \cup DOMAIN opts.headers |->
                     IF h = "Authorization" THEN "Bearer " \o (CHOOSE t \in Tokens : TRUE)
                     ELSE opts.headers[h]],
      followRedirects |-> opts.followRedirects, validateStatus |-> opts.validateStatus ]

\* a request issued through the bare axios module
AxiosRequest(method, url, body, opts) ==
    [ method |-> method, url |-> url, baseURL |-> "", params |-> NoParams,
      body |-> body, headers |-> opts.headers,
      followRedirects |-> opts.followRedirects, validateStatus |-> opts.validateStatus ]

ValidateStatus(tag, status) ==
    IF tag = "lt400" THEN status < 400 ELSE status >= 200 /\ status < 300

\* { per_page: 100, ...params }
Spread(a, b) == [k \in DOMAIN a \cup DOMAIN b |-> IF k \in DOMAIN b THEN b[k] ELSE a[k]]
\* variant: { ...params, per_page: 100 }
MergeParams_defaultLast(params) == Spread(params, [k \in {"per_page"} |-> DefaultPerPage])
MergeParams(params) == Spread([k \in {"per_page"} |-> DefaultPerPage], params)

\* allResults.push(...(resp.data as T[]))
\* (a body is an array or an object; spreading an object throws a TypeError)
Iterable(d) == d.t = "arr"
\* variant: allResults = resp.data
Push_replace(acc, d) == d.v
Push(acc, d) == acc \o d.v
NotIterable == PlainError("resp.data is not iterable")

\* the multipart form: one field per upload parameter, then the file
UploadParamSets == { << >>, << "key", "policy" >> }
Form(uploadParams) == uploadParams \o << "file" >>

\* ------------------------------------------------------------------- state
VARIABLES
    env,         \* process.env: CANVAS_API_TOKEN and CANVAS_BASE_URL
    other,       \* the locals of a second invocation suspended at an await
    handler,     \* the tool handler that made the current invocation, if any
    config,      \* baseURL and token captured by the constructor
    op,          \* the operation of the current invocation
    pc,          \* idle | awaiting | settled | returned | thrown
    args,        \* the invocation's arguments
    allResults,  \* getPaginated's accumulator
    nextUrl,     \* getPaginated's continuation reference
    resp,        \* the last response the invocation received
    settled,     \* the settlement of the awaited request
    result,      \* the value returned
    error,       \* the message of the error thrown
    requests,    \* the requests the invocation issued, in order
    pages,       \* the bodies of the responses that resolved, in order
    failure,     \* the request that was rejected and the rejection, if any
    hops         \* redirects the transport followed for the request in flight

vars == << env, other, handler, config, op, pc, args, allResults, nextUrl, resp, settled, result, error,
           requests, pages, failure, hops >>

NoResp    == [status |-> 0, data |-> Und, link |-> AbsentLink]
NoSettle  == [kind |-> "none", resp |-> NoResp, err |-> NoError]
Resolve(r) == [kind |-> "resolve", resp |-> r, err |-> NoError]
Reject(e)  == [kind |-> "reject", resp |-> NoResp, err |-> e]
NoFailure == [at |-> 0, err |-> NoError]
NoArgs    == [path |-> "", params |-> NoParams, body |-> Und, uploadParams |-> <<>>]

\* a suspended invocation, and the record of one that was never started
NoHandler == [name |-> "none", pc |-> "none", error |-> "", files |-> {}]
NoCall ==
    [ op |-> "none", pc |-> "idle", args |-> NoArgs, allResults |-> <<>>, nextUrl |-> Null,
      resp |-> NoResp, settled |-> NoSettle, result |-> Und, error |-> "",
      requests |-> <<>>, pages |-> <<>>, failure |-> NoFailure, hops |-> 0,
      handler |-> NoHandler ]

Init ==
    /\ config \in [baseURL : BaseURLs, token : Tokens]
    /\ env = [token |-> SetTo(config.token), baseURL |-> SetTo(config.baseURL)]
    /\ other = NoCall
    /\ handler = NoHandler
    /\ op = "none"
    /\ pc = "idle"
    /\ args = NoArgs
    /\ allResults = <<>>
    /\ nextUrl = Null
    /\ resp = NoResp
    /\ settled = NoSettle
    /\ result = Und
    /\ error = ""
    /\ requests = <<>>
    /\ pages = <<>>
    /\ failure = NoFailure
    /\ hops = 0

Done == pc \in {"returned", "thrown"}

\* a new invocation, made by the handler h, starts with fresh locals and
\* issues its first request
StartAs(h, o, a, req) ==
    /\ pc = "idle" \/ Done
    /\ handler.pc # "meta"
    /\ handler' = h
    /\ op' = o
    /\ args' = a
    /\ pc' = "awaiting"
    /\ allResults' = <<>>
    /\ nextUrl' = Null
    /\ resp' = NoResp
    /\ settled' = NoSettle
    /\ result' = Und
    /\ error' = ""
    /\ requests' = << req >>
    /\ pages' = <<>>
    /\ failure' = NoFailure
    /\ hops' = 0
    /\ UNCHANGED << env, other, config >>

Start(o, a, req) == StartAs(NoHandler, o, a, req)

\* async get(path, params): this.client.get(path, { params })
get ==
    \E path \in Paths, params \in ParamSets :
        Start("get", [NoArgs EXCEPT !.path = path, !.params = params],
              ClientRequest(config, "GET", path, params, Und))

\* async getPaginated(path, params): the first request
getPaginatedOn(paths, paramSets) ==
    \E path \in paths, params \in paramSets :
        Start("getPaginated", [NoArgs EXCEPT !.path = path, !.params = params],
              ClientRequest(config, "GET", path, MergeParams(params), Und))

getPaginated == getPaginatedOn(Paths, ParamSets)

\* async post(path, data): this.client.post(path, data)
post ==
    \E path \in Paths, data \in {Und, Obj} :
        Start("post", [NoArgs EXCEPT !.path = path, !.body = data],
              ClientRequest(config, "POST", path, NoParams, data))

\* async uploadFile(uploadUrl, uploadParams, filePath): axios.post(uploadUrl, form, ...)
uploadFile ==
    \E uploadUrl \in UploadUrls, uploadParams \in UploadParamSets :
        Start("uploadFile", [NoArgs EXCEPT !.path = uploadUrl, !.uploadParams = uploadParams],
              AxiosRequest("POST", uploadUrl, Arr(Form(uploadParams)), UploadOptions))

\* --------------------------------------------------------------- transport
Current == requests[Len(requests)]

BodiesFor(status) ==
    IF status \in OkStatuses THEN PageBodies
    ELSE IF status \in RedirectStatuses THEN { Und }
    ELSE ErrorBodies

LinksFor(req, status) ==
    IF req.method = "GET" /\ status \in OkStatuses THEN ServedLinks ELSE { AbsentLink }

\* axios settles the promise by the request's validateStatus
Settle(req, r) ==
    IF ValidateStatus(req.validateStatus, r.status)
    THEN Resolve(r)
    ELSE Reject(AxiosResponseError(r.status, r.data))

\* the responses the upstream may give to the request on the wire
Responses ==
    UNION { { [status |-> status, data |-> data, link |-> link] :
                data \in BodiesFor(status), link \in LinksFor(Current, status) } :
            status \in OkStatuses \cup RedirectStatuses \cup ErrorStatuses }

\* the upstream answers the request on the wire with one of the given responses
RespondWith(served) ==
    /\ pc = "awaiting"
    /\ \E r \in served :
            /\ ~(r.status \in RedirectStatuses /\ Current.followRedirects)
            /\ settled' = Settle(Current, r)
    /\ pages' = IF settled'.kind = "resolve" THEN Append(pages, settled'.resp.data) ELSE pages
    /\ failure' = IF settled'.kind = "reject"
                  THEN [at |-> Len(requests), err |-> settled'.err] ELSE failure
    /\ pc' = "settled"
    /\ hops' = 0
    /\ UNCHANGED << env, other, handler, config, op, args, allResults, nextUrl, resp, result,
                    error, requests >>

Respond == RespondWith(Responses)

\* the upstream answers 3xx and the transport follows the redirect itself
FollowRedirect ==
    /\ pc = "awaiting"
    /\ Current.followRedirects
    /\ hops < MaxHops
    /\ hops' = hops + 1
    /\ UNCHANGED << env, other, handler, config, op, pc, args, allResults, nextUrl, resp, settled, result, error,
                    requests, pages, failure >>

\* no response at all: connection refused, DNS failure
NetworkFail ==
    /\ pc = "awaiting"
    /\ \E msg \in NetworkMessages : settled' = Reject(AxiosNetworkError(msg))
    /\ failure' = [at |-> Len(requests), err |-> settled'.err]
    /\ pc' = "settled"
    /\ hops' = 0
    /\ UNCHANGED << env, other, handler, config, op, args, allResults, nextUrl, resp, result, error, requests,
                    pages >>

\* ----------------------------------------------------------- continuations
Returned(v) == [pc |-> "returned", result |-> v,   error |-> ""]
Thrown(msg) == [pc |-> "thrown",   result |-> Und, error |-> msg]

\* catch (err) { throw this.handleError(err); }  of each operation
\* variant: the failure is swallowed and undefined returned
getCatch_swallow(err) == Returned(Und)
getCatch(err) == Thrown(handleError(err))
postCatch(err) == Thrown(handleError(err))
uploadFileCatch(err) == Thrown(handleError(err))
\* variant: the pages fetched so far are returned
getPaginatedCatch_partial(acc, err) == Returned(Arr(acc))
getPaginatedCatch(acc, err) == Thrown(handleError(err))

Finish(o) ==
    /\ pc' = o.pc
    /\ result' = o.result
    /\ error' = o.error

\* variant: a cap of two pages
LoopCondition_capped(nu) == Truthy(nu) /\ Len(requests) < 2
\* while (nextUrl)
LoopCondition(nu) == Truthy(nu)

\* get after its await: return resp.data, or the catch block
getResume ==
    /\ op = "get" /\ pc = "settled"
    /\ IF settled.kind = "resolve"
       THEN resp' = settled.resp /\ Finish(Returned(settled.resp.data))
       ELSE resp' = resp /\ Finish(getCatch(settled.err))
    /\ settled' = NoSettle
    /\ UNCHANGED << env, other, handler, config, op, args, allResults, nextUrl, requests, pages, failure, hops >>

\* post after its await
postResume ==
    /\ op = "post" /\ pc = "settled"
    /\ IF settled.kind = "resolve"
       THEN resp' = settled.resp /\ Finish(Returned(settled.resp.data))
       ELSE resp' = resp /\ Finish(postCatch(settled.err))
    /\ settled' = NoSettle
    /\ UNCHANGED << env, other, handler, config, op, args, allResults, nextUrl, requests, pages, failure, hops >>

\* uploadFile after its await
uploadFileResume ==
    /\ op = "uploadFile" /\ pc = "settled"
    /\ IF settled.kind = "resolve"
       THEN resp' = settled.resp /\ Finish(Returned(settled.resp.data))
       ELSE resp' = resp /\ Finish(uploadFileCatch(settled.err))
    /\ settled' = NoSettle
    /\ UNCHANGED << env, other, handler, config, op, args, allResults, nextUrl, requests, pages, failure, hops >>

\* variant: the follow-up request carries the merged parameters again
FollowUpRequest_reapply(cfg, nu, params) ==
    ClientRequest(cfg, "GET", nu, MergeParams(params), Und)
\* resp = await this.client.get(nextUrl)
FollowUpRequest(cfg, nu, params) == ClientRequest(cfg, "GET", nu, NoParams, Und)

\* getPaginated after either await: push the page, parse the link header, then
\* issue the follow-up request, or return allResults, or the catch block
getPaginatedResume ==
    /\ op = "getPaginated" /\ pc = "settled"
    /\ IF settled.kind = "resolve"
       THEN /\ resp' = settled.resp
            /\ IF Iterable(settled.resp.data)
               THEN LET acc == Push(allResults, settled.resp.data)
                        nu  == parseNextLink(settled.resp.link)
                    IN  /\ allResults' = acc
                        /\ nextUrl' = nu
                        /\ IF LoopCondition(nu)
                           THEN /\ Len(requests) < MaxPages
                                /\ requests' = Append(requests,
                                       FollowUpRequest(config, nu, args.params))
                                /\ hops' = 0
                                /\ pc' = "awaiting"
                                /\ UNCHANGED << result, error >>
                           ELSE /\ Finish(Returned(Arr(acc)))
                                /\ UNCHANGED << requests, hops >>
               ELSE /\ Finish(getPaginatedCatch(allResults, NotIterable))
                    /\ UNCHANGED << allResults, nextUrl, requests, hops >>
       ELSE /\ Finish(getPaginatedCatch(allResults, settled.err))
            /\ UNCHANGED << resp, allResults, nextUrl, requests, hops >>
    /\ settled' = NoSettle
    /\ UNCHANGED << env, other, handler, config, op, args, pages, failure >>

\* --------------------------------------------------- download_file handler
\* the methods of class CanvasAPI
Methods == {"get", "getPaginated", "post", "uploadFile"}

\* calling a member the object does not have
TypeErrorMessage(name) == "api." \o name \o " is not a function"

FilePath == "/courses/1/files/7"
DestPath == "/home/u/Downloads/a.pdf"

\* download_file: const fileMeta = await api.get(`/courses/${course_id}/files/${file_id}`)
download_file ==
    StartAs([name |-> "download_file", pc |-> "meta", error |-> "", files |-> {}],
            "get", [NoArgs EXCEPT !.path = FilePath],
            ClientRequest(config, "GET", FilePath, NoParams, Und))

\* the handler after its await: a throw of api.get leaves the handler; else
\* await api.downloadFile(fileMeta.url, destPath) is evaluated
download_fileResume ==
    /\ handler.name = "download_file"
    /\ handler.pc = "meta"
    /\ Done
    /\ IF pc = "thrown"
       THEN handler' = [handler EXCEPT !.pc = "failed", !.error = error]
       ELSE /\ "downloadFile" \notin Methods
            /\ handler' = [handler EXCEPT !.pc = "failed",
                                          !.error = TypeErrorMessage("downloadFile")]
    /\ UNCHANGED << env, other, config, op, pc, args, allResults, nextUrl, resp, settled,
                    result, error, requests, pages, failure, hops >>

Next ==
    \/ download_file
    \/ download_fileResume
    \/ get
    \/ getPaginated
    \/ post
    \/ uploadFile
    \/ Respond
    \/ FollowRedirect
    \/ NetworkFail
    \/ getResume
    \/ postResume
    \/ uploadFileResume
    \/ getPaginatedResume

Spec == Init /\ [][Next]_vars

\* the event loop runs a continuation once its promise has settled
FairSpec == Spec /\ WF_vars(getResume) /\ WF_vars(postResume)
                 /\ WF_vars(uploadFileResume) /\ WF_vars(getPaginatedResume)

\* ------------------------------------------------- two invocations at once
\* the locals of the running invocation
Me ==
    [ op |-> op, pc |-> pc, args |-> args, allResults |-> allResults, nextUrl |-> nextUrl,
      resp |-> resp, settled |-> settled, result |-> result, error |-> error,
      requests |-> requests, pages |-> pages, failure |-> failure, hops |-> hops,
      handler |-> handler ]

\* variant: the accumulator is a field of the client, shared by its invocations
LocalAcc_field(running, suspended) == running
\* const allResults: T[] = []  is a local of the invocation
LocalAcc(running, suspended) == suspended

\* the event loop leaves the running invocation at its await and resumes the
\* other one
Switch ==
    /\ pc \in {"idle", "awaiting", "settled", "returned", "thrown"}
    /\ other' = Me
    /\ op' = other.op
    /\ pc' = other.pc
    /\ args' = other.args
    /\ allResults' = LocalAcc(allResults, other.allResults)
    /\ nextUrl' = other.nextUrl
    /\ resp' = other.resp
    /\ settled' = other.settled
    /\ result' = other.result
    /\ error' = other.error
    /\ requests' = other.requests
    /\ pages' = other.pages
    /\ failure' = other.failure
    /\ hops' = other.hops
    /\ handler' = other.handler
    /\ UNCHANGED << env, config >>

\* two listings, each with its own items
ConcPaths == {"/courses", "/announcements"}
ItemsOf(path) == IF path = "/courses" THEN {1} ELSE {2}
ConcResponses ==
    { [status |-> 200, data |-> d, link |-> l] :
        d \in { Arr(<< x >>) : x \in ItemsOf(args.path) }
                \cup { Arr(<< x, x >>) : x \in ItemsOf(args.path) },
        l \in { AbsentLink, PresentLink(FormatLink(<< Entry("https://x/y?page=2", "next") >>)) } }
    \cup { [status |-> 500, data |-> Nul, link |-> AbsentLink] }

getPaginatedConc == getPaginatedOn(ConcPaths, { NoParams })
RespondConc == RespondWith(ConcResponses)

NextConc ==
    \/ getPaginatedConc
    \/ RespondConc
    \/ getPaginatedResume
    \/ Switch

SpecConc == Init /\ [][NextConc]_vars

\* ------------------------------------------------------------ construction
\* const api = new CanvasAPI() at module load, then the operations
InitBoot ==
    /\ env \in [token : EnvTokens, baseURL : EnvBaseURLs]
    /\ config = NoClient
    /\ other = NoCall
    /\ handler = NoHandler
    /\ op = "none"
    /\ pc = "boot"
    /\ args = NoArgs
    /\ allResults = <<>>
    /\ nextUrl = Null
    /\ resp = NoResp
    /\ settled = NoSettle
    /\ result = Und
    /\ error = ""
    /\ requests = <<>>
    /\ pages = <<>>
    /\ failure = NoFailure
    /\ hops = 0

\* constructor(): throw when a value is missing, else axios.create
constructor ==
    /\ pc = "boot"
    /\ IF ConfigMissing(env.token, env.baseURL)
       THEN /\ pc' = "fatal"
            /\ error' = MsgConfig
            /\ config' = config
       ELSE /\ pc' = "idle"
            /\ error' = error
            /\ config' = CreateClient(env)
    /\ UNCHANGED << env, other, handler, op, args, allResults, nextUrl, resp, settled, result,
                    requests, pages, failure, hops >>

NextBoot == constructor \/ Next

SpecBoot == InitBoot /\ [][NextBoot]_vars

\* ------------------------------------------- the parser on its own inputs
\* parseNextLink applied to every header of at most MaxEntries entries
InitParse ==
    /\ config \in [baseURL : BaseURLs, token : Tokens]
    /\ env = [token |-> SetTo(config.token), baseURL |-> SetTo(config.baseURL)]
    /\ other = NoCall
    /\ handler = NoHandler
    /\ op = "parseNextLink"
    /\ pc = "called"
    /\ args = NoArgs
    /\ allResults = <<>>
    /\ nextUrl = Null
    /\ resp \in { [NoResp EXCEPT !.link = h] : h \in LinkHeaders }
    /\ settled = NoSettle
    /\ result = Und
    /\ error = ""
    /\ requests = <<>>
    /\ pages = <<>>
    /\ failure = NoFailure
    /\ hops = 0

parseNextLinkCall ==
    /\ op = "parseNextLink" /\ pc = "called"
    /\ nextUrl' = parseNextLink(resp.link)
    /\ pc' = "returned"
    /\ UNCHANGED << env, other, handler, config, op, args, allResults, resp, settled, result, error, requests,
                    pages, failure, hops >>

NextParse == parseNextLinkCall

SpecParse == InitParse /\ [][NextParse]_vars

\* ----------------------------------------------- the classifier on its own
\* messages of errors raised outside axios
ErrorTexts ==
    { "", "boom", "null", "ENOENT: no such file or directory",
      "source.on is not a function", MsgUnauthorized }

\* a value thrown that is not an Error
ThrownValue(v) == [NoError EXCEPT !.data = v]
ThrownValues ==
    { Str(""), Str("boom"), Str("404"), Nul, Und, Obj }
        \cup { Arr(q) : q \in SeqsUpTo({1, 2}, MaxEntries) }

Failures ==
    { AxiosResponseError(st, d) : st \in ErrorStatuses, d \in ErrorBodies \cup PageBodies }
        \cup { AxiosNetworkError(m) : m \in NetworkMessages }
        \cup { PlainError(m) : m \in ErrorTexts }
        \cup { ThrownValue(v) : v \in ThrownValues }

InitClassify ==
    /\ config \in [baseURL : BaseURLs, token : Tokens]
    /\ env = [token |-> SetTo(config.token), baseURL |-> SetTo(config.baseURL)]
    /\ other = NoCall
    /\ handler = NoHandler
    /\ op = "handleError"
    /\ pc = "called"
    /\ args = NoArgs
    /\ allResults = <<>>
    /\ nextUrl = Null
    /\ resp = NoResp
    /\ settled = NoSettle
    /\ result = Und
    /\ error = ""
    /\ requests = <<>>
    /\ pages = <<>>
    /\ failure \in { [at |-> 0, err |-> e] : e \in Failures }
    /\ hops = 0

handleErrorCall ==
    /\ op = "handleError" /\ pc = "called"
    /\ error' = handleError(failure.err)
    /\ pc' = "returned"
    /\ UNCHANGED << env, other, handler, config, op, args, allResults, nextUrl, resp, settled,
                    result, requests, pages, failure, hops >>

NextClassify == handleErrorCall

SpecClassify == InitClassify /\ [][NextClassify]_vars

TypeOK ==
    /\ op \in {"none", "get", "getPaginated", "post", "uploadFile", "parseNextLink",
               "handleError"}
    /\ pc \in {"boot", "fatal", "idle", "called", "awaiting", "settled", "returned", "thrown"}
    /\ Len(requests) <= MaxPages
    /\ hops \in 0..MaxHops
    /\ handler.name \in {"none", "download_file"}
    /\ handler.pc \in {"none", "meta", "failed"}
    /\ handler.files = {}

\* ------------------------------------------------------------- properties
RECURSIVE FlattenPages(_)
FlattenPages(ps) == IF ps = <<>> THEN <<>> ELSE Head(ps).v \o FlattenPages(Tail(ps))

RECURSIVE SumLens(_)
SumLens(ps) == IF ps = <<>> THEN 0 ELSE Len(Head(ps).v) + SumLens(Tail(ps))

AllResolved == failure.at = 0 /\ Len(pages) = Len(requests)
AllPagesAreSequences == \A i \in DOMAIN pages : pages[i].t = "arr"

\* C1: when every request of a getPaginated invocation succeeded with a page
\* that is a sequence of items, the invocation returns exactly the
\* concatenation of the served pages in fetch order; the length of the result
\* is the sum of the page lengths.
C1_Concatenation ==
    (op = "getPaginated" /\ Done /\ AllResolved /\ AllPagesAreSequences)
        => /\ pc = "returned"
           /\ result = Arr(FlattenPages(pages))
           /\ Len(result.v) = SumLens(pages)

C1_Witness ==
    /\ op = "getPaginated" /\ pc = "returned"
    /\ Len(pages) = 3
    /\ result.v = << 1, 2, 1 >>

\* C2: getPaginated is all-or-nothing: after the request for any page failed
\* the invocation never returns and ends by throwing the classified error; a
\* returned value is the complete sequence up to a page without a next link.
C2_AllOrNothing ==
    op = "getPaginated" =>
        /\ failure.at # 0 => /\ pc \in {"settled", "thrown"}
                             /\ result = Und
        /\ (pc = "thrown" /\ failure.at # 0) => error = handleError(failure.err)
        /\ pc = "returned" => /\ failure.at = 0
                              /\ result = Arr(FlattenPages(pages))
                              /\ ~Truthy(parseNextLink(resp.link))

C2_Witness ==
    /\ op = "getPaginated" /\ pc = "thrown"
    /\ failure.at = 3
    /\ allResults = << 2, 1 >>
    /\ result = Und

\* C3: for a failure that carries a response the thrown message is fixed by
\* the status for 401, 403, 404 and 429, whatever the body, and otherwise is
\* "Canvas API error <status>: <serialized body>".
C3_StatusMessages ==
    (pc = "thrown" /\ failure.at # 0 /\ failure.err.hasResponse) =>
        LET status == failure.err.status
        IN  error = CASE status = 401 -> "Canvas API: Unauthorized -- check your API token"
                      [] status = 403 -> "Canvas API: Forbidden -- you don't have access to this resource"
                      [] status = 404 -> "Canvas API: Not found -- check the course/assignment ID"
                      [] status = 429 -> "Canvas API: Rate limited -- try again in a moment"
                      [] OTHER -> "Canvas API error " \o ToString(status) \o ": "
                                      \o JSONstringify(failure.err.data)

C3_Witness ==
    /\ pc = "thrown"
    /\ failure.err.hasResponse /\ failure.err.status = 500 /\ failure.err.data = Str("gone")
    /\ error = "Canvas API error 500: \"gone\""

\* C4: a failure without a response is thrown with the message of the
\* underlying failure, not with the "Canvas API error <status>: <body>" format.
C4_TransportMessage ==
    (pc = "thrown" /\ failure.at # 0 /\ ~failure.err.hasResponse) =>
        error = failure.err.message

\* C5: get, post and getPaginated neither swallow nor retry: once a request
\* has failed it is the last request of the invocation, nothing is returned,
\* and the invocation ends by throwing the classified error.
C5_NoRetryNoSwallow ==
    (op \in {"get", "post", "getPaginated"} /\ failure.at # 0) =>
        /\ failure.at = Len(requests)
        /\ pc \in {"settled", "thrown"}
        /\ result = Und
        /\ pc = "thrown" => error = handleError(failure.err)

C5_Witness ==
    /\ op = "get" /\ pc = "thrown"
    /\ failure.at = 1 /\ failure.err.hasResponse /\ failure.err.status = 429
    /\ Len(requests) = 1

\* a response that ends the pagination loop has arrived
TerminalArrived ==
    /\ op = "getPaginated" /\ pc = "settled"
    /\ \/ settled.kind = "reject"
       \/ ~Iterable(settled.resp.data)
       \/ ~Truthy(parseNextLink(settled.resp.link))

\* a finished getPaginated has seen such a response
EndsOnlyOnTerminal ==
    (op = "getPaginated" /\ Done) =>
        \/ failure.at # 0
        \/ ~Iterable(resp.data)
        \/ ~Truthy(parseNextLink(resp.link))

\* the step taken on a page that carries a next link
FollowsEveryNext ==
    (/\ op = "getPaginated" /\ pc = "settled" /\ settled.kind = "resolve"
     /\ Iterable(settled.resp.data) /\ Truthy(parseNextLink(settled.resp.link)))
        => /\ pc' = "awaiting"
           /\ Len(requests') = Len(requests) + 1
           /\ requests'[Len(requests')].url = parseNextLink(settled.resp.link)

\* C6: getPaginated ends once a page without a next link, or a failure, has
\* arrived; it ends only then; and a page with a next link is always followed
\* by a request to that link, however many pages were fetched and whether or
\* not the link was requested before.
C6_Termination ==
    /\ []EndsOnlyOnTerminal
    /\ [][FollowsEveryNext]_vars
    /\ (TerminalArrived ~> Done)

C6_Witness ==
    /\ op = "getPaginated" /\ pc = "awaiting"
    /\ Len(requests) = 3
    /\ requests[2].url = requests[3].url

\* C7: the first request of getPaginated carries every caller parameter with
\* the caller's value and nothing else but per_page, which is 100 when the
\* caller gave none.
C7_ParamsMerge ==
    (op = "getPaginated" /\ requests # <<>>) =>
        LET sent == requests[1].params
            mine == args.params
        IN  /\ DOMAIN sent = DOMAIN mine \cup {"per_page"}
            /\ \A k \in DOMAIN mine : sent[k] = mine[k]
            /\ "per_page" \notin DOMAIN mine => sent["per_page"] = 100

C7_Witness ==
    /\ op = "getPaginated" /\ requests # <<>>
    /\ DOMAIN args.params = {"per_page", "order_by"}
    /\ requests[1].params["per_page"] = 50
    /\ requests[1].params["order_by"] = "due_at"

\* the url of the first entry whose rel is next
RECURSIVE ExpectedNext(_)
ExpectedNext(es) ==
    IF es = <<>> THEN Null
    ELSE IF Head(es).rel = "next" THEN Head(es).url
    ELSE ExpectedNext(Tail(es))

\* C8: for a header that is a list of <url>; rel="name" entries the parser
\* returns the url of the (first) entry whose rel is next, wherever it sits,
\* and null when the header is absent or has no such entry.
C8_NextLink ==
    (op = "parseNextLink" /\ pc = "returned") =>
        /\ ~resp.link.def => nextUrl = Null
        /\ \A es \in EntryLists :
              resp.link = PresentLink(FormatLink(es)) => nextUrl = ExpectedNext(es)

C8_Witness ==
    /\ op = "parseNextLink" /\ pc = "returned"
    /\ resp.link = PresentLink(FormatLink(<< Entry("https://x/y?page=2", "prev"),
                                             Entry("https://x/y?page=2", "last"),
                                             Entry("https://x/y?page=3", "next") >>))
    /\ nextUrl = "https://x/y?page=3"

\* C9: uploadFile issues exactly one POST, to uploadUrl, and the transport
\* never follows it by a second request for a redirect; it returns
\* the body of that response when its status is below 400, 3xx included, and
\* throws the classified error otherwise.
C9_UploadSingleShot ==
    op = "uploadFile" =>
        /\ Len(requests) = 1 /\ hops = 0
        /\ requests[1].method = "POST" /\ requests[1].url = args.path
        /\ failure.at # 0 => /\ pc \in {"settled", "thrown"}
                             /\ failure.err.hasResponse => failure.err.status >= 400
        /\ pc = "returned" => resp.status < 400 /\ result = resp.data
        /\ pc = "thrown" => failure.at = 1 /\ error = handleError(failure.err)

C9_Witness ==
    /\ op = "uploadFile" /\ pc = "returned"
    /\ resp.status = 302
    /\ Len(requests) = 1

\* C10: a request carries "Authorization: Bearer <token>" exactly when it was
\* issued by get, getPaginated (follow-up requests included) or post; the
\* request of uploadFile has no Authorization header.
C10_BearerOnlyViaClient ==
    \A i \in DOMAIN requests :
        /\ op \in {"get", "getPaginated", "post"} =>
              /\ "Authorization" \in DOMAIN requests[i].headers
              /\ requests[i].headers["Authorization"] = "Bearer " \o config.token
        /\ op = "uploadFile" => "Authorization" \notin DOMAIN requests[i].headers

C10_Witness ==
    /\ op = "uploadFile" /\ pc = "awaiting"
    /\ DOMAIN requests[1].headers = {"content-type"}

\* C11: with the token or the base address absent or empty the constructor
\* throws the configuration error, no client exists and no request is ever
\* issued; with both present the client is built from them.
C11_ConfigRequired ==
    LET tokenOk == env.token.def /\ env.token.s # ""
        baseOk  == env.baseURL.def /\ env.baseURL.s # ""
    IN  /\ ~(tokenOk /\ baseOk) =>
              /\ pc \in {"boot", "fatal"}
              /\ pc = "fatal" => error = MsgConfig
              /\ config = NoClient
              /\ op = "none" /\ requests = <<>>
              /\ other = NoCall
        /\ (tokenOk /\ baseOk /\ pc # "boot") =>
              /\ pc # "fatal"
              /\ config = [baseURL |-> env.baseURL.s, token |-> env.token.s]

C11_Witness ==
    /\ pc = "fatal"
    /\ env.token.def /\ env.token.s # ""
    /\ ~env.baseURL.def
    /\ requests = <<>>

\* what an invocation holds, returns or throws, given only its own exchange
\* with the upstream
Alone(c) ==
    c.op = "getPaginated" =>
        /\ c.pc = "awaiting" => c.allResults = FlattenPages(c.pages)
        /\ c.pc = "settled" =>
              c.allResults = FlattenPages(SubSeq(c.pages, 1, Len(c.requests) - 1))
        /\ c.pc = "returned" => /\ c.failure.at = 0
                                /\ c.result = Arr(FlattenPages(c.pages))
        /\ c.pc = "thrown" => /\ c.failure.at = Len(c.requests)
                              /\ c.error = handleError(c.failure.err)
                              /\ c.result = Und
        /\ \A i \in DOMAIN c.allResults : c.allResults[i] \in ItemsOf(c.args.path)
        /\ \A i \in DOMAIN c.result.v : c.result.v[i] \in ItemsOf(c.args.path)

\* C12: with two invocations in flight on the one client, under every
\* interleaving of their round-trips, each holds, returns or throws what its
\* own exchange with the upstream determines, no item of one listing is in
\* the other's result, and the shared configuration never changes.
C12_Independent ==
    /\ Alone(Me)
    /\ Alone(other)
    /\ config = CreateClient(env)

C12_Witness ==
    /\ op = "getPaginated" /\ other.op = "getPaginated"
    /\ pc = "awaiting" /\ other.pc = "awaiting"
    /\ args.path = "/courses" /\ other.args.path = "/announcements"
    /\ allResults = << 1, 1, 1 >> /\ other.allResults = << 2 >>

\* the failures a transfer can end in
TransferFailures ==
    { AxiosResponseError(st, d) : st \in ErrorStatuses, d \in ErrorBodies }
        \cup { AxiosNetworkError(m) : m \in NetworkMessages }

\* C13: once download_file has the file's metadata, its call of downloadFile
\* either writes the destination path or throws an error produced by the
\* classifier.
C13_DownloadProvided ==
    (handler.name = "download_file" /\ handler.pc # "meta" /\ pc = "returned") =>
        \/ DestPath \in handler.files
        \/ \E e \in TransferFailures : handler.error = handleError(e)

\* C14: the classifier returns for every failure; for a failure that is not
\* an AxiosError the returned error carries the original message unchanged
\* when the failure is an Error, and the value stringified otherwise.
C14_Unknown ==
    op = "handleError" =>
        /\ pc \in {"called", "returned"}
        /\ (pc = "returned" /\ ~failure.err.axios) =>
              /\ failure.err.isError => error = failure.err.message
              /\ failure.err = ThrownValue(Nul) => error = "null"
              /\ failure.err = ThrownValue(Und) => error = "undefined"
              /\ failure.err = ThrownValue(Obj) => error = "[object Object]"
              /\ failure.err = ThrownValue(Arr(<< 1, 2 >>)) => error = "1,2"
              /\ \A x \in {"", "boom", "404"} : failure.err = ThrownValue(Str(x)) => error = x
              /\ ~failure.err.isError => error = String(failure.err.data)

C14_Witness ==
    /\ op = "handleError" /\ pc = "returned"
    /\ failure.err = PlainError("source.on is not a function")
    /\ error = "source.on is not a function"

\* the requests of a getPaginated and the responses received for them
ChainInOrder ==
    op = "getPaginated" =>
        /\ Len(pages) <= Len(requests)
        /\ Len(requests) <= Len(pages) + 1
        /\ pc = "awaiting" => Len(pages) = Len(requests) - 1
        /\ pc = "returned" => Len(requests) = Len(pages)
        /\ \A n \in 2..Len(requests) :
              /\ requests[n].method = "GET"
              /\ requests[n].params = NoParams
              /\ requests[n].body = Und
        /\ (pc = "awaiting" /\ Len(requests) >= 2) =>
              /\ nextUrl = parseNextLink(resp.link)
              /\ requests[Len(requests)].url = nextUrl

\* a step of a getPaginated in progress leaves its requests alone, or adds one
\* request for the reference of the response just received
OneFollowUp ==
    (op = "getPaginated" /\ ~Done /\ requests' # requests) =>
        /\ pc = "settled" /\ settled.kind = "resolve"
        /\ Len(pages) = Len(requests)
        /\ Truthy(parseNextLink(settled.resp.link))
        /\ \E r \in { requests'[Len(requests')] } :
              /\ requests' = Append(requests, r)
              /\ r.url = parseNextLink(settled.resp.link)
              /\ r.method = "GET"
              /\ r.params = NoParams
        /\ pc' = "awaiting"

\* C15: the requests of getPaginated form an ordered chain: a request after
\* the first is issued only on receipt of the response before it, is the one
\* GET issued for that response's next reference, goes to exactly that
\* reference and carries no query parameters; a getPaginated that returns has
\* issued as many requests as it received pages.
C15_OrderedChain ==
    /\ []ChainInOrder
    /\ [][OneFollowUp]_vars

C15_Witness ==
    /\ op = "getPaginated" /\ pc = "returned"
    /\ Len(requests) = 2 /\ Len(pages) = 2
    /\ DOMAIN args.params = {"per_page", "order_by"}
    /\ requests[2].url = "https://x/y?page=2"
    /\ requests[2].params = NoParams
    /\ result = Arr(<< 2, 1, 1 >>)

====
